---- MODULE Spec2Model ----
(***************************************************************************)
(* Stock Analysis API (src/api/app.py): the process-wide TTL cache         *)
(* (get_cached_or_fetch) and the analyze_stock request handler that fans   *)
(* out five lookups through it and assembles the insight records.          *)
(*                                                                         *)
(* Three specifications share the operators of the cache and the handler:  *)
(*   CacheSpec    concurrent callers of get_cached_or_fetch(key,           *)
(*                fetch_func), with the clock advancing during a fetch     *)
(*   Spec         analyze_stock requests, answered one after the other:    *)
(*                quote, four secondary lookups, generate_agent_insights,  *)
(*                response                                                 *)
(*   InsightSpec  generate_agent_insights on the records the fetches and   *)
(*                the fallbacks can produce                                *)
(* Time is in seconds, money in cents (provider prices in tenths of a      *)
(* cent, before round(x, 2)).                                              *)
(***************************************************************************)
EXTENDS Integers, Sequences, FiniteSets, TLC

VARIABLES clock, ticks, cache, calls, began, overlap, lastWriter, writtenAt,
          req, served

vars == <<clock, ticks, cache, calls, began, overlap, lastWriter, writtenAt,
          req, served>>

----------------------------------------------------------------------------
(* Bounds of the model *)

\* number of clock advances in one run
MaxTicks == 2

\* number of get_cached_or_fetch calls in one CacheSpec run
NumCalls == 2

\* the amounts (seconds) by which the clock advances between two steps
Steps == {299, 300}

\* cache keys used by the callers of CacheSpec
CallKeys == {"stock_AAPL", "news_AAPL"}

Calls == 1..NumCalls

----------------------------------------------------------------------------
(* The cache: src/api/app.py lines 16-30 *)

CACHE_DURATION == 300

\* `key in cache`
InCache(c, key) == key \in DOMAIN c

FreshReversed(c, key, now) ==
    InCache(c, key) /\ now - c[key].timestamp > CACHE_DURATION

FreshLate(c, key, now) ==
    InCache(c, key) /\ now - c[key].timestamp <= CACHE_DURATION

\* lines 23-26: the entry exists and `now - timestamp < CACHE_DURATION`
Fresh(c, key, now) ==
    InCache(c, key) /\ now - c[key].timestamp < CACHE_DURATION

StoreAtWrite(c, key, data, now) ==
    [k \in DOMAIN c \cup {key} |->
        IF k = key THEN [data |-> data, timestamp |-> clock] ELSE c[k]]

StoreIfAbsent(c, key, data, now) ==
    [k \in DOMAIN c \cup {key} |->
        IF k = key /\ ~InCache(c, key)
        THEN [data |-> data, timestamp |-> now] ELSE c[k]]

\* line 29: cache[key] = (data, now), `now` being the value read at line 22
Store(c, key, data, now) ==
    [k \in DOMAIN c \cup {key} |->
        IF k = key THEN [data |-> data, timestamp |-> now] ELSE c[k]]

StoreFailure(c, key, now) ==
    [k \in DOMAIN c \cup {key} |->
        IF k = key THEN [data |-> -1, timestamp |-> now] ELSE c[k]]

\* line 28 raising: the exception leaves get_cached_or_fetch before line 29
AfterRaise(c, key, now) == c

----------------------------------------------------------------------------
(* CacheSpec: callers of get_cached_or_fetch *)

IdleCall == [pc |-> "idle", key |-> "", now |-> 0, data |-> 0, fetches |-> 0,
             order |-> 0]

\* the clock (datetime.now().timestamp(), line 22) advances
Tick ==
    /\ ticks < MaxTicks
    /\ \E d \in Steps : clock' = clock + d
    /\ ticks' = ticks + 1
    /\ UNCHANGED <<cache, calls, began, overlap, lastWriter, writtenAt, req,
                   served>>

\* lines 22-28: read the clock, look the key up; a fresh entry is returned
\* (line 26), otherwise fetch_func is invoked (line 28) and is in flight
Begin(c, key) ==
    /\ calls[c].pc = "idle"
    /\ began' = began + 1
    /\ overlap' = (overlap \/ \E d \in Calls : calls[d].pc = "fetching")
    /\ IF Fresh(cache, key, clock)
       THEN calls' = [calls EXCEPT ![c] =
                [pc |-> "returned", key |-> key, now |-> clock,
                 data |-> cache[key].data, fetches |-> 0, order |-> began + 1]]
       ELSE calls' = [calls EXCEPT ![c] =
                [pc |-> "fetching", key |-> key, now |-> clock,
                 data |-> 0, fetches |-> 1, order |-> began + 1]]
    /\ UNCHANGED <<clock, ticks, cache, lastWriter, writtenAt, req, served>>

\* what the fetch_func of call c returns: each invocation has its own result
ResultOf(c) == c

\* lines 28-30: fetch_func returns `data`; it is stored and returned
FetchReturns(c) ==
    /\ calls[c].pc = "fetching"
    /\ cache' = Store(cache, calls[c].key, ResultOf(c), calls[c].now)
    /\ calls' = [calls EXCEPT ![c].pc = "returned", ![c].data = ResultOf(c)]
    /\ lastWriter' = [lastWriter EXCEPT ![calls[c].key] = c]
    /\ writtenAt' = [writtenAt EXCEPT ![calls[c].key] = clock]
    /\ UNCHANGED <<clock, ticks, began, overlap, req, served>>

\* line 28: fetch_func raises; the exception propagates to the caller
FetchRaises(c) ==
    /\ calls[c].pc = "fetching"
    /\ cache' = AfterRaise(cache, calls[c].key, calls[c].now)
    /\ calls' = [calls EXCEPT ![c].pc = "raised"]
    /\ UNCHANGED <<clock, ticks, began, overlap, lastWriter, writtenAt, req,
                   served>>

CacheInit ==
    /\ clock = 0
    /\ ticks = 0
    /\ cache = [k \in {} |-> [data |-> 0, timestamp |-> 0]]
    /\ calls = [c \in Calls |-> IdleCall]
    /\ began = 0
    /\ overlap = FALSE
    /\ lastWriter = [k \in CallKeys |-> 0]
    /\ writtenAt = [k \in CallKeys |-> 0]
    /\ req = <<>>
    /\ served = 0

CacheNext ==
    \/ Tick
    \/ \E c \in Calls, key \in CallKeys : Begin(c, key)
    \/ \E c \in Calls : FetchReturns(c)
    \/ \E c \in Calls : FetchRaises(c)

CacheSpec == CacheInit /\ [][CacheNext]_vars

----------------------------------------------------------------------------
(* Values of the request handler: dicts are functions on their key set *)

\* number of analyze_stock requests in one Spec run, served one at a time
NumReqs == 2

\* tickers as they arrive in the URL
Tickers == {"aapl", "AAPL"}

Kinds == {"stock", "financials", "analyst", "news", "peers"}

EmptyDict == [k \in {} |-> 0]

\* dict.get(key, default)
Get(d, key, default) == IF key \in DOMAIN d THEN d[key] ELSE default

UpperNone(t) == t

\* line 37: ticker.upper(), on the tickers of the model
Upper(t) ==
    CASE t = "aapl" -> "AAPL"
      [] OTHER -> t

\* round(x, 2) of a price given in tenths of a cent, in cents (ties to even;
\* the provider prices of the model are not ties)
Round2(mills) ==
    LET q == mills \div 10
        r == mills % 10
    IN  IF r < 5 THEN q
        ELSE IF r > 5 THEN q + 1
        ELSE IF q % 2 = 0 THEN q ELSE q + 1

Abs(x) == IF x < 0 THEN -x ELSE x

RECURSIVE Gcd(_, _)
Gcd(a, b) == IF b = 0 THEN a ELSE Gcd(b, a % b)

\* the rational n/d (d # 0) in lowest terms with a positive denominator
Frac(n, d) ==
    LET g == Gcd(Abs(n), Abs(d))
        sgn == IF d < 0 THEN -1 ELSE 1
    IN  <<sgn * (n \div g), sgn * (d \div g)>>

\* what the provider returns for stock.info in the quote fetch: an upstream
\* error, or a payload of `nfields` fields whose price
\* (currentPrice or regularMarketPrice, line 112) is `price` tenths of a cent
QuotePayloads ==
    { [raises |-> TRUE,  nfields |-> 0, price |-> 0,      industry |-> {}],
      [raises |-> FALSE, nfields |-> 4, price |-> 100000, industry |-> {"Software"}],
      [raises |-> FALSE, nfields |-> 5, price |-> 0,      industry |-> {"Software"}],
      [raises |-> FALSE, nfields |-> 5, price |-> 100000, industry |-> {"Software"}],
      [raises |-> FALSE, nfields |-> 5, price |-> 100000, industry |-> {}] }

\* the provider in the analyst fetch: an error (stock.info raising, or a
\* field such as targetMeanPrice being None so that round() raises), or the
\* targets in tenths of a cent
AnalystPayloads ==
    { [raises |-> TRUE,  target |-> 0],
      [raises |-> FALSE, target |-> 115000] }

\* the provider in the financials and the news fetch
PlainPayloads == { [raises |-> TRUE], [raises |-> FALSE] }

\* the peer fetch (lines 288-297) reads nothing from the provider
PeerPayloads == { [raises |-> FALSE] }

Payloads(kind) ==
    CASE kind = "stock" -> QuotePayloads
      [] kind = "analyst" -> AnalystPayloads
      [] kind = "peers" -> PeerPayloads
      [] OTHER -> PlainPayloads

Raised(msg) == [ok |-> FALSE, error |-> msg]

Returned(data) == [ok |-> TRUE, data |-> data]

StockFetchLoose(ticker, p) ==
    IF p.raises THEN Raised("yfinance error for " \o ticker \o ": upstream")
    ELSE Returned([currentPrice |-> Round2(p.price),
                   industry |-> IF p.industry = {} THEN "Unknown"
                                ELSE CHOOSE i \in p.industry : TRUE])

\* lines 98-153: fetch() of get_stock_data
StockFetch(ticker, p) ==
    IF p.raises
    THEN Raised("yfinance error for " \o ticker \o ": upstream")
    ELSE IF p.nfields < 5
    THEN Raised("yfinance error for " \o ticker \o ": No data returned")
    ELSE IF p.price = 0
    THEN Raised("yfinance error for " \o ticker \o ": Could not fetch price")
    ELSE Returned([currentPrice |-> Round2(p.price),
                   industry |-> IF p.industry = {} THEN "Unknown"
                                ELSE CHOOSE i \in p.industry : TRUE])

\* lines 160-212: fetch() of get_financial_metrics, the four metrics in order
FinancialFetch(ticker, p) ==
    IF p.raises THEN Raised("financials")
    ELSE Returned(<< [name |-> "Revenue (TTM)", current |-> "$1.0B"],
                     [name |-> "Gross Margin", current |-> "40.0%"],
                     [name |-> "Free Cash Flow", current |-> "$200.0M"],
                     [name |-> "Operating Margin", current |-> "30.0%"] >>)

\* lines 219-255: fetch() of get_analyst_consensus
AnalystFetch(ticker, p) ==
    IF p.raises THEN Raised("analyst")
    ELSE Returned([consensusRating |-> "Buy",
                   numberOfAnalysts |-> 12,
                   priceTargets |->
                       [average |-> Round2(p.target),
                        source |-> "Yahoo Finance - Analyst Consensus"]])

\* lines 262-281: fetch() of get_news_sentiment
NewsFetch(ticker, p) ==
    IF p.raises THEN Raised("news")
    ELSE Returned([overallSentiment |-> "Positive",
                   recentNews |-> <<"item">>,
                   source |-> "Yahoo Finance News Feed"])

\* lines 288-297: fetch() of get_peer_comparison
PeerFetch(ticker, industry, p) ==
    Returned([industry |-> industry,
              source |-> "Industry Analysis",
              note |-> "Detailed peer comparison requires subscription"])

\* the fetch_func each getter hands to get_cached_or_fetch
FetchFn(kind, ticker, stock_data, p) ==
    CASE kind = "stock" -> StockFetch(ticker, p)
      [] kind = "financials" -> FinancialFetch(ticker, p)
      [] kind = "analyst" -> AnalystFetch(ticker, p)
      [] kind = "news" -> NewsFetch(ticker, p)
      [] kind = "peers" ->
            PeerFetch(ticker, Get(stock_data, "industry", "Unknown"), p)

\* the cache keys: lines 155, 214, 257, 283, 299
KeyOf(kind, ticker, stock_data) ==
    CASE kind = "stock" -> "stock_" \o ticker
      [] kind = "financials" -> "financials_" \o ticker
      [] kind = "analyst" -> "analyst_" \o ticker
      [] kind = "news" -> "news_" \o ticker
      [] kind = "peers" ->
            "peers_" \o ticker \o "_" \o Get(stock_data, "industry", "Unknown")

\* the except branches of lines 47-63
Fallback(kind) ==
    CASE kind = "financials" -> <<>>
      [] kind = "analyst" ->
            [consensusRating |-> "N/A", priceTargets |-> EmptyDict]
      [] kind = "news" -> [overallSentiment |-> "Neutral", recentNews |-> <<>>]
      [] kind = "peers" -> [industry |-> "Unknown"]

UpsideNonZero(current_price, target_price) ==
    IF current_price # 0
    THEN Frac((target_price - current_price) * 100, current_price)
    ELSE <<0, 1>>

\* line 307: the upside, a rational <<numerator, denominator>>
Upside(current_price, target_price) ==
    IF current_price > 0
    THEN Frac((target_price - current_price) * 100, current_price)
    ELSE <<0, 1>>

\* lines 305-306: current_price and target_price of generate_agent_insights
CurrentPrice(stock_data) == Get(stock_data, "currentPrice", 0)

TargetPrice(analyst_data) ==
    Get(Get(analyst_data, "priceTargets", EmptyDict), "average", 0)

InsightKeys ==
    << "analyst_consensus", "news_sentiment", "financial_analyst",
       "market_intelligence", "peer_comparison", "management_quality",
       "valuation", "tech_risk" >>

InsightNames ==
    << "Analyst Consensus", "News Sentiment", "Financial Health",
       "Market Intelligence", "Peer Comparison", "Management & Governance",
       "Valuation Analysis", "Technology & Innovation" >>

\* the data-driven part of insight i (lines 311-470)
InsightDetail(i, ticker, stock_data, financial_data, analyst_data, news_data, peer_data) ==
    LET revenue_metric ==
            IF financial_data # <<>> THEN financial_data[1] ELSE EmptyDict
    IN  CASE i = 1 -> [rating |-> Get(analyst_data, "consensusRating", "N/A"),
                       analysts |-> Get(analyst_data, "numberOfAnalysts", 0),
                       target |-> TargetPrice(analyst_data),
                       source |-> analyst_data["priceTargets"]["source"]]
          [] i = 2 -> [sentiment |-> Get(news_data, "overallSentiment", "Neutral"),
                       articles |-> Len(Get(news_data, "recentNews", <<>>))]
          [] i = 3 -> [revenue |-> Get(revenue_metric, "current", "N/A")]
          [] i = 4 -> [industry |-> Get(stock_data, "industry", "Unknown"),
                       basis |-> Get(peer_data, "source", "market data")]
          [] i = 5 -> [dataSource |-> Get(peer_data, "source", "Market Analysis")]
          [] i = 6 -> [company |-> ticker]
          [] i = 7 -> [price |-> CurrentPrice(stock_data),
                       upside |-> Upside(CurrentPrice(stock_data),
                                         TargetPrice(analyst_data))]
          [] i = 8 -> [industry |-> Get(stock_data, "industry", "the industry")]

InsightsSkipEmpty(ticker, stock_data, financial_data, analyst_data, news_data, peer_data) ==
    IF "source" \notin DOMAIN Get(analyst_data, "priceTargets", EmptyDict)
    THEN Raised("'source'")
    ELSE Returned(
           LET all == [i \in 1..8 |->
                         [key |-> InsightKeys[i], name |-> InsightNames[i],
                          detail |-> InsightDetail(i, ticker, stock_data,
                                        financial_data, analyst_data,
                                        news_data, peer_data)]]
           IN  IF financial_data = <<>>
               THEN SubSeq(all, 1, 2) \o SubSeq(all, 4, 8)
               ELSE all)

\* lines 302-472: generate_agent_insights; the subscript
\* analyst_data['priceTargets']['source'] of line 317 raises KeyError when
\* the targets dict has no 'source'
GenerateAgentInsights(ticker, stock_data, financial_data, analyst_data, news_data, peer_data) ==
    IF "source" \notin DOMAIN Get(analyst_data, "priceTargets", EmptyDict)
    THEN Raised("'source'")
    ELSE Returned([i \in 1..8 |->
                     [key |-> InsightKeys[i], name |-> InsightNames[i],
                      detail |-> InsightDetail(i, ticker, stock_data,
                                    financial_data, analyst_data, news_data,
                                    peer_data)]])

\* lines 43 and 93: jsonify({'success': False, 'error': ...}), 500
Failure(msg) == [status |-> 500, body |-> [success |-> FALSE, error |-> msg]]

\* lines 66-90: the analysis and jsonify({'success': True, 'data': analysis})
Success(ticker, d, insights) ==
    [status |-> 200,
     body |-> [success |-> TRUE,
               data |-> [ticker |-> ticker,
                         currentPrice |-> Get(d["stock"], "currentPrice", 0),
                         analystRating |->
                             Get(d["analyst"], "consensusRating", "N/A"),
                         priceTargets |->
                             Get(d["analyst"], "priceTargets", EmptyDict),
                         financials |-> d["financials"],
                         agentInsights |-> insights]]]

----------------------------------------------------------------------------
(* Spec: analyze_stock requests, served one at a time *)

\* no request was answered before
NoEarlier ==
    [url |-> "", full |-> FALSE, ticker |-> "", data |-> EmptyDict,
     oldest |-> 0]

\* what the answered request q leaves behind, the cache being c: the ticker
\* of its URL and, when it succeeded with no fetch failed, the ticker of its
\* response, its five records and the oldest timestamp of their entries
Earlier(q, c) ==
    IF q.pc = "done" /\ q.response.status = 200 /\ q.failed = {}
    THEN LET stamps == { c[KeyOf(k, q.ticker, q.data["stock"])].timestamp :
                            k \in Kinds }
         IN  [url |-> q.url, full |-> TRUE,
              ticker |-> q.response.body["data"].ticker, data |-> q.data,
              oldest |-> CHOOSE x \in stamps : \A y \in stamps : x <= y]
    ELSE NoEarlier

IdleReq ==
    [pc |-> "idle", kind |-> "stock", url |-> "", ticker |-> "", now |-> 0,
     prev |-> NoEarlier, data |-> EmptyDict,
     lookups |-> [k \in Kinds |-> 0], fetches |-> [k \in Kinds |-> 0],
     failed |-> {}, writes |-> {}, quote |-> {}, assembled |-> FALSE,
     upside |-> <<0, 1>>,
     response |-> [status |-> 0, body |-> EmptyDict]]

NextStageAbort(kind) ==
    CASE kind = "stock" -> "financials"
      [] kind = "financials" -> "analyst"
      [] kind = "analyst" -> "assemble"
      [] kind = "news" -> "peers"
      [] kind = "peers" -> "assemble"

\* the order of the handler: lines 41, 46, 51, 56, 61, then 66-90
NextStage(kind) ==
    CASE kind = "stock" -> "financials"
      [] kind = "financials" -> "analyst"
      [] kind = "analyst" -> "news"
      [] kind = "news" -> "peers"
      [] kind = "peers" -> "assemble"

\* lines 40-43: only the failure of get_stock_data ends the request
Fatal(kind) == kind = "stock"

\* the request after the call for `kind` gave `value`; `now`, a local of
\* get_cached_or_fetch, is gone
Proceed(q, kind, value) ==
    LET d == [k \in DOMAIN q.data \cup {kind} |->
                 IF k = kind THEN value ELSE q.data[k]]
    IN  IF NextStage(kind) = "assemble"
        THEN [q EXCEPT !.pc = "assemble", !.now = 0, !.data = d]
        ELSE [q EXCEPT !.pc = "call", !.now = 0, !.kind = NextStage(kind),
                       !.data = d]

\* lines 34-37: a request arrives once the one before it has been answered;
\* the ticker is upper-cased
Arrive(t) ==
    /\ req.pc \in {"idle", "done"}
    /\ served < NumReqs
    /\ served' = served + 1
    /\ req' = [IdleReq EXCEPT !.pc = "call", !.url = t, !.ticker = Upper(t),
                           !.prev = Earlier(req, cache)]
    /\ UNCHANGED <<clock, ticks, cache, calls, began, overlap, lastWriter,
                   writtenAt>>

\* a getter calls get_cached_or_fetch (lines 22-28): a fresh entry is
\* returned, otherwise fetch_func is invoked
Lookup ==
    LET q == req
        key == KeyOf(q.kind, q.ticker, Get(q.data, "stock", EmptyDict))
        q1 == [q EXCEPT !.now = clock, !.lookups[q.kind] = @ + 1]
    IN  /\ q.pc = "call"
        /\ IF Fresh(cache, key, clock)
           THEN req' = Proceed(q1, q.kind, cache[key].data)
           ELSE req' = [q1 EXCEPT !.pc = "fetch", !.fetches[q.kind] = @ + 1]
        /\ UNCHANGED <<clock, ticks, cache, calls, began, overlap, lastWriter,
                       writtenAt, served>>

\* fetch_func comes back (line 28): its result is stored and returned
\* (lines 29-30), or its exception reaches the handler (lines 42-43, 47-63)
FetchDone(p) ==
    LET q == IF req.kind = "stock" THEN [req EXCEPT !.quote = {p}] ELSE req
        stock_data == Get(q.data, "stock", EmptyDict)
        key == KeyOf(q.kind, q.ticker, stock_data)
        res == FetchFn(q.kind, q.ticker, stock_data, p)
    IN  /\ q.pc = "fetch"
        /\ IF res.ok
           THEN /\ cache' = Store(cache, key, res.data, q.now)
                /\ req' = Proceed([q EXCEPT !.writes = @ \cup {key}],
                                  q.kind, res.data)
           ELSE /\ cache' = AfterRaise(cache, key, q.now)
                /\ IF Fatal(q.kind)
                   THEN req' = [q EXCEPT !.pc = "done", !.now = 0,
                                         !.failed = @ \cup {q.kind},
                                         !.response = Failure(
                                            "Failed to fetch stock data: "
                                            \o res.error)]
                   ELSE req' = Proceed([q EXCEPT !.failed = @ \cup {q.kind}],
                                       q.kind, Fallback(q.kind))
        /\ UNCHANGED <<clock, ticks, calls, began, overlap, lastWriter,
                       writtenAt, served>>

\* lines 66-93: the insights are generated and the response is built; an
\* exception of generate_agent_insights is caught at line 92
Respond ==
    LET q == req
        d == q.data
        stock_data == Get(d, "stock", EmptyDict)
        gen == GenerateAgentInsights(q.ticker, stock_data, d["financials"],
                                     d["analyst"], d["news"], d["peers"])
    IN  /\ q.pc = "assemble"
        /\ req' = [q EXCEPT !.pc = "done",
                            !.assembled = TRUE,
                            !.upside = Upside(CurrentPrice(stock_data),
                                              TargetPrice(d["analyst"])),
                            !.response = IF gen.ok
                                         THEN Success(q.ticker, d, gen.data)
                                         ELSE Failure(gen.error)]
        /\ UNCHANGED <<clock, ticks, cache, calls, began, overlap, lastWriter,
                       writtenAt, served>>

Init ==
    /\ clock = 0
    /\ ticks = 0
    /\ cache = [k \in {} |-> [data |-> 0, timestamp |-> 0]]
    /\ calls = <<>>
    /\ began = 0
    /\ overlap = FALSE
    /\ lastWriter = <<>>
    /\ writtenAt = <<>>
    /\ req = IdleReq
    /\ served = 0

Next ==
    \/ Tick
    \/ \E t \in Tickers : Arrive(t)
    \/ Lookup
    \/ \E p \in Payloads(req.kind) : FetchDone(p)
    \/ Respond

Spec == Init /\ [][Next]_vars

----------------------------------------------------------------------------
(* InsightSpec: generate_agent_insights on every combination of records the
   fetches and the fallbacks can hand to it *)

\* provider prices (tenths of a cent) the quote fetch accepts, among them a
\* price that rounds to 0.00 and a negative one
InsightPrices == {4, 14, 30000, 100000, 150000, -5000}

\* provider mean targets (tenths of a cent)
InsightTargets == {90000, 115000, 172500}

InsightStock ==
    { StockFetch("AAPL", [raises |-> FALSE, nfields |-> 5, price |-> m,
                          industry |-> {"Software"}]).data :
        m \in InsightPrices }

InsightAnalyst ==
    { AnalystFetch("AAPL", [raises |-> FALSE, target |-> m]).data :
        m \in InsightTargets }

\* the request when line 86 is reached with the records s, f, a, n
AtAssemble(s, f, a, n) ==
    [IdleReq EXCEPT
        !.pc = "assemble", !.kind = "peers", !.ticker = "AAPL",
        !.lookups = [k \in Kinds |-> 1],
        !.failed = (IF f = {} THEN {"financials"} ELSE {})
                    \cup (IF a = {} THEN {"analyst"} ELSE {})
                    \cup (IF n = {} THEN {"news"} ELSE {}),
        !.data = [k \in Kinds |->
            CASE k = "stock" -> s
              [] k = "financials" ->
                    IF f = {} THEN Fallback(k) ELSE CHOOSE x \in f : TRUE
              [] k = "analyst" ->
                    IF a = {} THEN Fallback(k) ELSE CHOOSE x \in a : TRUE
              [] k = "news" ->
                    IF n = {} THEN Fallback(k) ELSE CHOOSE x \in n : TRUE
              [] k = "peers" -> PeerFetch("AAPL", s.industry,
                                          [raises |-> FALSE]).data]]

InsightInit ==
    /\ clock = 0
    /\ ticks = 0
    /\ cache = [k \in {} |-> [data |-> 0, timestamp |-> 0]]
    /\ calls = <<>>
    /\ began = 0
    /\ overlap = FALSE
    /\ lastWriter = <<>>
    /\ writtenAt = <<>>
    /\ served = 1
    /\ \E s \in InsightStock :
       \E f \in {{}, {FinancialFetch("AAPL", [raises |-> FALSE]).data}} :
       \E a \in {{}} \cup {{x} : x \in InsightAnalyst} :
       \E n \in {{}, {NewsFetch("AAPL", [raises |-> FALSE]).data}} :
          req = AtAssemble(s, f, a, n)

InsightNext == Respond

InsightSpec == InsightInit /\ [][InsightNext]_vars

----------------------------------------------------------------------------
(* Properties of the cache, checked under CacheSpec *)

\* call c takes a step out of "idle", i.e. enters get_cached_or_fetch
Begins(c) == calls[c].pc = "idle" /\ calls'[c].pc # "idle"

\* call c fetched and stored its result
Stored(c) == calls[c].pc = "returned" /\ calls[c].fetches = 1

\* C3, first part: a call that finds an entry younger than 300 seconds
\* returns the stored value, does not invoke fetch_func and leaves the cache
\* as it is
C3_HitStep ==
    \A c \in Calls :
        (/\ Begins(c)
         /\ calls'[c].key \in DOMAIN cache
         /\ clock - cache[calls'[c].key].timestamp < 300)
        => /\ calls'[c].pc = "returned"
           /\ calls'[c].data = cache[calls'[c].key].data
           /\ calls'[c].fetches = 0
           /\ cache' = cache

\* C3, second part: with the calls executed one at a time, a call that comes
\* less than 300 seconds after a call that stored the same key does not fetch
C3_OneFetchInWindow ==
    ~overlap =>
        \A c1, c2 \in Calls :
            (/\ calls[c1].order < calls[c2].order
             /\ calls[c1].key = calls[c2].key
             /\ Stored(c1)
             /\ calls[c2].now - calls[c1].now < 300)
            => calls[c2].fetches = 0

\* C3: inside the 300-second window get_or_fetch returns the stored value
\* without fetching and without touching the cache, so two calls one after
\* the other inside the window fetch at most once in total
C3_FreshEntryServed == [][C3_HitStep]_vars /\ []C3_OneFetchInWindow

\* C3 witness: a call stored the key, and a later call 299 seconds after it
\* was served from the cache
C3_Witness ==
    \E c1, c2 \in Calls :
        /\ ~overlap
        /\ calls[c1].order < calls[c2].order
        /\ calls[c1].key = calls[c2].key
        /\ Stored(c1)
        /\ calls[c2].pc = "returned"
        /\ calls[c2].fetches = 0
        /\ calls[c2].now - calls[c1].now = 299
        /\ calls[c2].data = calls[c1].data

\* C4, lookup: an absent key, or an entry of age 300 seconds or more, makes
\* the call invoke fetch_func (once)
C4_MissStep ==
    \A c \in Calls :
        (/\ Begins(c)
         /\ \/ calls'[c].key \notin DOMAIN cache
            \/ clock - cache[calls'[c].key].timestamp >= 300)
        => /\ calls'[c].pc = "fetching"
           /\ calls'[c].fetches = 1
           /\ calls'[c].now = clock

\* C4, return: the result of the fetch replaces the entry, with the `now`
\* of the call, and is returned; fetch_func is not invoked again
C4_StoreStep ==
    \A c \in Calls :
        (calls[c].pc = "fetching" /\ calls'[c].pc = "returned")
        => /\ DOMAIN cache' = DOMAIN cache \cup {calls[c].key}
           /\ cache'[calls[c].key] =
                 [data |-> calls'[c].data, timestamp |-> calls[c].now]
           /\ \A k \in DOMAIN cache \ {calls[c].key} : cache'[k] = cache[k]
           /\ calls'[c].fetches = 1

\* C4: on an absent or expired key (age exactly 300 is expired) get_or_fetch
\* invokes fetch_func exactly once, stores (result, now) and returns the result
C4_MissFetchesAndStores ==
    /\ [][C4_MissStep /\ C4_StoreStep]_vars
    /\ [](\A c \in Calls : calls[c].fetches <= 1)

\* C4 witness: an entry of age exactly 300 seconds was fetched again and
\* replaced
C4_Witness ==
    \E c1, c2 \in Calls :
        /\ calls[c1].key = calls[c2].key
        /\ Stored(c1) /\ Stored(c2)
        /\ calls[c2].now - calls[c1].now = 300
        /\ ~overlap
        /\ cache[calls[c2].key] =
              [data |-> calls[c2].data, timestamp |-> calls[c2].now]

\* C6, the failing call: the cache after the exception is the cache before it
C6_RaiseStep ==
    \A c \in Calls :
        (calls[c].pc = "fetching" /\ calls'[c].pc = "raised")
        => cache' = cache

\* C6, cache contents: every stored value is the result of a fetch that
\* returned
C6_OnlyResultsStored ==
    \A k \in DOMAIN cache :
        \E c \in Calls : Stored(c) /\ calls[c].key = k
                         /\ cache[k].data = ResultOf(c)

\* C6, the next call: with the calls executed one at a time, the call that
\* follows a failed call for the same key fetches again
C6_NextCallFetches ==
    ~overlap =>
        \A c1, c2 \in Calls :
            (/\ calls[c1].pc = "raised"
             /\ calls[c2].order = calls[c1].order + 1
             /\ calls[c2].key = calls[c1].key)
            => calls[c2].fetches = 1

\* C6: a failing fetch stores nothing, no failure value is ever in the
\* cache, and the next call for the key fetches again
C6_FailuresNotCached ==
    /\ [][C6_RaiseStep]_vars
    /\ [](C6_OnlyResultsStored /\ C6_NextCallFetches)

\* C6 witness: a fetch failed and the next call for the same key, in the same
\* second, fetched again
C6_Witness ==
    \E c1, c2 \in Calls :
        /\ ~overlap
        /\ calls[c1].pc = "raised"
        /\ calls[c2].order = calls[c1].order + 1
        /\ calls[c2].key = calls[c1].key
        /\ calls[c2].now = calls[c1].now
        /\ calls[c2].fetches = 1

AllFinished == \A c \in Calls : calls[c].pc \in {"returned", "raised"}

\* C7: two calls racing on an absent or expired key may both fetch; when
\* both are finished the key has one entry, that of the call that wrote last
C7_LastWriteWins ==
    \A c1, c2 \in Calls :
        (/\ c1 # c2
         /\ AllFinished
         /\ calls[c1].key = calls[c2].key
         /\ Stored(c1) /\ Stored(c2)
         /\ lastWriter[calls[c1].key] = c2)
        => /\ calls[c1].key \in DOMAIN cache
           /\ cache[calls[c1].key] =
                 [data |-> ResultOf(c2), timestamp |-> calls[c2].now]

\* C7 witness: both calls fetched the same key at the same time (the second
\* began while the first was fetching), and the call that began first wrote
\* last
C7_Witness ==
    \E c1, c2 \in Calls :
        /\ c1 # c2
        /\ AllFinished
        /\ overlap
        /\ calls[c1].key = calls[c2].key
        /\ Stored(c1) /\ Stored(c2)
        /\ calls[c1].order < calls[c2].order
        /\ lastWriter[calls[c1].key] = c1
        /\ cache[calls[c1].key].data = ResultOf(c1)

\* C9 as claimed: the timestamp stored with an entry is the time at which
\* the entry was written
C9_StampIsWriteTime ==
    \A k \in DOMAIN cache : cache[k].timestamp = writtenAt[k]

\* C9, lookup of an existing entry: it is served exactly when the call that
\* wrote it began less than 300 seconds ago
C9_ServedStep ==
    \A c \in Calls :
        (Begins(c) /\ calls'[c].key \in DOMAIN cache)
        => (calls'[c].fetches = 0
            <=> clock - calls[lastWriter[calls'[c].key]].now < 300)

\* C9 amended: the timestamp stored with an entry is the time read when the
\* call that wrote it began, which is not later than the write; the entry
\* is served for 300 seconds from that time
C9_StampIsCallStart ==
    /\ [](\A k \in DOMAIN cache :
            /\ lastWriter[k] \in Calls
            /\ cache[k].timestamp = calls[lastWriter[k]].now
            /\ cache[k].timestamp <= writtenAt[k])
    /\ [][C9_ServedStep]_vars

\* C9 witness: an entry written 299 seconds after its call began is no
\* longer served 299 seconds after the write
C9_Witness ==
    \E c1, c2 \in Calls :
        /\ calls[c1].key = calls[c2].key
        /\ Stored(c1)
        /\ writtenAt[calls[c1].key] - calls[c1].now = 299
        /\ calls[c2].order > calls[c1].order
        /\ calls[c2].now - writtenAt[calls[c1].key] = 299
        /\ calls[c2].pc = "fetching"
        /\ lastWriter[calls[c1].key] = c1

\* call c writes its result to the cache in this step
Writes(c) == calls[c].pc = "fetching" /\ calls'[c].pc = "returned"

\* C12 as claimed: in every interleaving, the timestamp stored for a key
\* never decreases from one write to the next
C12_StampNeverDecreases ==
    [][\A k \in DOMAIN cache : cache'[k].timestamp >= cache[k].timestamp]_vars

\* C12, a write: the timestamp installed is the time at which the writing
\* call began; it is older than the one it replaces only if the writing call
\* began before the call whose entry it replaces, while calls overlapped
C12_WriteStep ==
    \A c \in Calls :
        Writes(c)
        => LET k == calls[c].key
           IN  /\ cache'[k].timestamp = calls[c].now
               /\ (k \in DOMAIN cache
                   /\ cache'[k].timestamp < cache[k].timestamp)
                  => /\ overlap
                     /\ calls[c].order < calls[lastWriter[k]].order

\* C12 amended: with the calls executed one at a time the timestamp of a key
\* never decreases; with overlapping calls a later write installs the time
\* at which its call began, which is older than the timestamp it replaces
\* only when its call began earlier than the call whose entry it replaces
C12_StampFollowsCallStart ==
    /\ [][C12_WriteStep]_vars
    /\ [][~overlap' => \A k \in DOMAIN cache :
                          cache'[k].timestamp >= cache[k].timestamp]_vars

\* C12 witness: of two overlapping calls for one key the one that began
\* 299 seconds earlier wrote last, and the entry carries its older timestamp
C12_Witness ==
    \E c1, c2 \in Calls :
        /\ overlap
        /\ calls[c1].key = calls[c2].key
        /\ Stored(c1) /\ Stored(c2)
        /\ calls[c1].order < calls[c2].order
        /\ calls[c2].now - calls[c1].now = 299
        /\ lastWriter[calls[c1].key] = c1
        /\ cache[calls[c1].key].timestamp = calls[c1].now

----------------------------------------------------------------------------
(* Properties of analyze_stock, checked under Spec *)

Secondary == {"financials", "analyst", "news", "peers"}

Answered == req.pc = "done"

\* the payload the provider gave to the quote fetch of this request makes
\* the fetch fail: upstream error, fewer than 5 fields, or a price of zero
QuoteFetchFailed ==
    \E p \in req.quote : p.raises \/ p.nfields < 5 \/ p.price = 0

\* C1 as claimed: when the quote succeeded, whatever secondary fetches
\* failed, the response is a success and every failed fetch is replaced by
\* its fallback
C1_SecondaryFailureStillSucceeds ==
    (Answered /\ "stock" \notin req.failed)
    => /\ req.response.status = 200
       /\ req.response.body["success"] = TRUE
       /\ "data" \in DOMAIN req.response.body
       /\ \A k \in req.failed : req.data[k] = Fallback(k)

\* C2, the answered request: a failed quote fetch gives a failure response
\* with an error string and no data; no secondary lookup was made, no
\* insight was assembled and nothing was written to the cache
C2_QuoteFailureAnswer ==
    (Answered /\ QuoteFetchFailed)
    => /\ req.response.status = 500
       /\ req.response.body["success"] = FALSE
       /\ "error" \in DOMAIN req.response.body
       /\ "data" \notin DOMAIN req.response.body
       /\ \A k \in Secondary : req.lookups[k] = 0 /\ req.fetches[k] = 0
       /\ ~req.assembled
       /\ req.writes = {}

\* C2, the failing step: the cache is left as it was
C2_QuoteFailureStep ==
    (req.pc = "fetch" /\ req.kind = "stock" /\ req'.pc = "done")
    => cache' = cache

\* C2: a failed quote fetch fails the request, with no secondary fetch, no
\* insight assembly and no change of the cache
C2_QuoteFailureIsFatal ==
    [](C2_QuoteFailureAnswer /\ (QuoteFetchFailed => Answered))
    /\ [][C2_QuoteFailureStep]_vars

\* C2 witness: a request whose quote payload had 4 fields was answered with
\* a failure, while the cache holds the entries of an earlier request
C2_Witness ==
    /\ Answered
    /\ \E p \in req.quote : ~p.raises /\ p.nfields = 4
    /\ req.response.status = 500
    /\ served = 2
    /\ DOMAIN cache # {}

\* C5: a success response carries the eight insights, in the fixed order
C5_EightInsightsInOrder ==
    (Answered /\ req.response.status = 200)
    => LET ins == req.response.body["data"].agentInsights
       IN  /\ Len(ins) = 8
           /\ [i \in 1..8 |-> ins[i].key] =
                 << "analyst_consensus", "news_sentiment", "financial_analyst",
                    "market_intelligence", "peer_comparison",
                    "management_quality", "valuation", "tech_risk" >>

\* C5 witness: a success response of a request whose financial and news
\* fetches failed
C5_Witness ==
    /\ Answered
    /\ req.response.status = 200
    /\ req.failed = {"financials", "news"}
    /\ Len(req.response.body["data"].agentInsights) = 8

\* C10: the quote lookup is over before a secondary lookup starts; after a
\* successful quote each secondary lookup is made exactly once; no lookup
\* and no fetch function is repeated within a request
C10_LookupsOnceInOrder ==
    /\ \A k \in Kinds : req.lookups[k] <= 1 /\ req.fetches[k] <= req.lookups[k]
    /\ \A k \in Secondary :
          req.lookups[k] = 1
          => /\ req.lookups["stock"] = 1
             /\ "stock" \in DOMAIN req.data
             /\ ~(req.kind = "stock" /\ req.pc \in {"call", "fetch"})
    /\ (req.pc \in {"assemble", "done"} /\ "stock" \in DOMAIN req.data)
          => \A k \in Kinds : req.lookups[k] = 1

\* C10 witness: an answered request whose quote succeeded, whose financial
\* and analyst fetches failed and whose news and peer lookups were still made
C10_Witness ==
    /\ Answered
    /\ "stock" \in DOMAIN req.data
    /\ req.failed = {"financials", "analyst"}
    /\ req.lookups["news"] = 1
    /\ req.fetches["peers"] = 1

\* the request before this one succeeded with no fetch failed, and its URL
\* ticker differs from this one's in letter case only
OtherSpellingBefore ==
    /\ req.prev.full
    /\ {req.prev.url, req.url} = {"aapl", "AAPL"}

\* C11: a request whose ticker differs in letter case only from that of the
\* fully successful request before it uses the same five cache keys, and
\* when it is answered while the five entries are less than 300 seconds old
\* it has invoked no fetch function and returns the same ticker and the
\* same records
C11_CaseInsensitiveKeys ==
    (Answered /\ OtherSpellingBefore)
    => /\ \A k \in Kinds :
             KeyOf(k, Upper(req.url), req.prev.data["stock"])
                 = KeyOf(k, Upper(req.prev.url), req.prev.data["stock"])
       /\ clock - req.prev.oldest < 300
          => /\ \A k \in Kinds : req.fetches[k] = 0 /\ req.lookups[k] = 1
             /\ req.response.status = 200
             /\ req.response.body["data"].ticker = req.prev.ticker
             /\ req.data = req.prev.data

\* C11 witness: "AAPL" answered from the cache 299 seconds after the
\* lookups of a fully successful "aapl"
C11_Witness ==
    /\ Answered
    /\ OtherSpellingBefore
    /\ req.prev.url = "aapl"
    /\ req.url = "AAPL"
    /\ clock - req.prev.oldest = 299
    /\ \A k \in Kinds : req.fetches[k] = 0
    /\ req.response.status = 200

----------------------------------------------------------------------------
(* Properties of the upside, checked under InsightSpec *)

\* the price and the target that generate_agent_insights was given
GivenPrice == req.data["stock"].currentPrice

GivenTarget ==
    IF "average" \in DOMAIN req.data["analyst"].priceTargets
    THEN req.data["analyst"].priceTargets["average"]
    ELSE 0

\* req.upside is the rational (target - price) / price * 100
UpsideIsFormula ==
    /\ req.upside[2] > 0
    /\ req.upside[1] * GivenPrice = (GivenTarget - GivenPrice) * 100 * req.upside[2]

\* C8 as claimed: the formula for every non-zero price, 0 for the price 0
C8_UpsideForNonZeroPrice ==
    req.assembled
    => /\ GivenPrice # 0 => UpsideIsFormula
       /\ GivenPrice = 0 => req.upside = <<0, 1>>

\* C8 amended: the formula for every price above zero, 0 for a price of zero
\* or below; price 100 and target 115 give 15; a missing target counts as 0
C8_UpsideForPositivePrice ==
    req.assembled
    => /\ GivenPrice > 0 => UpsideIsFormula
       /\ GivenPrice <= 0 => req.upside = <<0, 1>>
       /\ (GivenPrice = 10000 /\ GivenTarget = 11500) => req.upside = <<15, 1>>
       /\ (GivenPrice > 0 /\ req.data["analyst"] = Fallback("analyst"))
             => req.upside = <<-100, 1>>

\* C8 witness: the upside of a negative price is 0
C8_Witness ==
    /\ req.assembled
    /\ GivenPrice = -500
    /\ GivenTarget = 11500
    /\ req.upside = <<0, 1>>

====
